---- MODULE Spec2Model ----
(***************************************************************************)
(* Model of src/utils.py: the InteractiveArray wrapper (construction,      *)
(* sum, update_stats, onclick, display) and the builder of the naive        *)
(* Fibonacci call tree (draw_fib_tree).                                     *)
(*                                                                          *)
(* Conventions.                                                             *)
(*  - A numpy array is a record [shape, flat]: its shape tuple and its      *)
(*    row-major buffer.  A numpy scalar has shape <<>>.                     *)
(*  - Python's None is the empty sequence <<>>, a present value x is <<x>>. *)
(*  - Pointer positions and rectangle corners are held in HALF units: the   *)
(*    integer v2 stands for the float v2 / 2, so that x + 0.5 is v2 + 1.    *)
(*    Every float the program handles here is a multiple of 0.5.            *)
(***************************************************************************)
EXTENDS Integers, Sequences, FiniteSets, TLC

VARIABLES
    arr,              \* self.arr
    stats,            \* self.stats
    xticks,           \* self.xticks
    yticks,           \* self.yticks (None: the attribute is not set)
    highlight_rects,  \* self.highlight_rects: the xy corner of each Rectangle
    ax,               \* self.ax: None or the axes of the last rendered figure
    title,            \* the caption of the current figure (plt.title)
    printed,          \* the last line display() printed, or None
    ret,              \* outcome of the last operation: its value or exception
    last,             \* the last operation and its arguments
    before,           \* highlight_rects as it was before the last operation
    twice,            \* the last two operations were clicks on the same cell
    fib_n,            \* draw_fib_tree's argument n
    stack,            \* call stack of draw_fib_tree_internal
    counter,          \* the dict counter
    gnodes,           \* graph.node(...) calls, in order: node identifiers
    gedges,           \* graph.edge(...) calls, in order: <<parent, node>>
    fibDone           \* display(G) has been called

arrayVars == <<arr, stats, xticks, yticks, highlight_rects, ax, title,
               printed, ret, last, before, twice>>
fibVars == <<fib_n, stack, counter, gnodes, gedges, fibDone>>
vars == <<arr, stats, xticks, yticks, highlight_rects, ax, title,
          printed, ret, last, before, twice,
          fib_n, stack, counter, gnodes, gedges, fibDone>>

None == <<>>
Some(x) == <<x>>

(***************************************************************************)
(* Bounds of the model.                                                    *)
(***************************************************************************)
\* at most this many rectangles are highlighted at once
MaxRects == 2
\* draw_fib_tree is called with n in -MaxNeg .. MaxN
MaxN == 5
MaxNeg == 2

(***************************************************************************)
(* numpy helpers                                                           *)
(***************************************************************************)
RECURSIVE Prod(_)
Prod(s) == IF s = <<>> THEN 1 ELSE s[1] * Prod(Tail(s))

RECURSIVE SumSeq(_)
SumSeq(s) == IF s = <<>> THEN 0 ELSE s[1] + SumSeq(Tail(s))

Rank(a) == Len(a.shape)

\* np.arange(n)
NpArange(n) == [i \in 1..n |-> i - 1]

\* the input arrays
Arr1D == [shape |-> <<3>>, flat |-> <<3, 1, 8>>]
Arr2D == [shape |-> <<2, 1>>, flat |-> <<5, 2>>]
Arr3D == [shape |-> <<1, 2, 2>>, flat |-> <<1, 2, 3, 4>>]
Arrays == {Arr1D, Arr2D, Arr3D}

\* the image ax.matshow draws: arr[np.newaxis, :] for rank 1, arr for rank 2
GridRows(a) == IF Rank(a) = 1 THEN 1 ELSE a.shape[1]
GridCols(a) == IF Rank(a) = 1 THEN a.shape[1] ELSE a.shape[2]

\* caller-supplied labels for an axis of n cells
Labels(n) == [i \in 1..n |-> 10 * i]

\* a numpy index k into a dimension of length n: negative k counts from the end
IndexOk(k, n) == -n <= k /\ k < n
NormIndex(k, n) == IF k < 0 THEN k + n ELSE k

\* np.sum(a, axis): axis is None or Some(k)
AxisOk(a, axis) == axis = None \/ IndexOk(axis[1], Rank(a))
NpSum(a, axis) ==
    IF axis = None
    THEN [shape |-> <<>>, flat |-> <<SumSeq(a.flat)>>]
    ELSE LET k     == NormIndex(axis[1], Rank(a)) + 1
             outer == Prod(SubSeq(a.shape, 1, k - 1))
             mid   == a.shape[k]
             inner == Prod(SubSeq(a.shape, k + 1, Rank(a)))
         IN  [shape |-> SubSeq(a.shape, 1, k - 1) \o SubSeq(a.shape, k + 1, Rank(a)),
              flat  |-> [j \in 1..(outer * inner) |->
                           LET o == (j - 1) \div inner
                               i == (j - 1) % inner
                           IN  SumSeq([m \in 1..mid |->
                                   a.flat[o * mid * inner + (m - 1) * inner + i + 1]])]]

(***************************************************************************)
(* InteractiveArray.__init__                                               *)
(***************************************************************************)
\* lines 18-21: arr.shape[0] of a zero-rank value is an IndexError
InitXticks(a, xt) ==
    IF xt # None THEN [exc |-> "None", val |-> xt[1]]
    ELSE IF Rank(a) = 0 THEN [exc |-> "IndexError", val |-> <<>>]
    ELSE [exc |-> "None", val |-> NpArange(a.shape[1])]

\* lines 22-26
InitYticks(a, yt) ==
    IF Rank(a) > 1
    THEN IF yt # None THEN Some(yt[1]) ELSE Some(NpArange(a.shape[2]))
    ELSE None

\* the object __init__ builds, or the exception it raises
Construct(a, st, xt, yt) ==
    LET x == InitXticks(a, xt)
    IN  IF x.exc # "None"
        THEN [kind |-> x.exc, obj |-> <<>>]
        ELSE [kind |-> "InteractiveArray",
              obj  |-> Some([arr |-> a, stats |-> st, highlight_rects |-> <<>>,
                             ax |-> None, shape |-> a.shape,
                             xticks |-> x.val, yticks |-> InitYticks(a, yt)])]

(***************************************************************************)
(* Float conversions, on half units (v2 stands for v2 / 2)                  *)
(***************************************************************************)
\* int(np.floor(v)): the greatest integer <= v
Floor2(v2) == v2 \div 2
\* int(v): truncation toward zero
Trunc2(v2) == IF v2 >= 0 THEN v2 \div 2 ELSE -((-v2) \div 2)

\* lines 59-60: the cell a pointer position maps to
ClickCol(x2) == Floor2(x2 + 1)
ClickRow(y2) == Floor2(y2 + 1)

\* lines 63, 70: the corner (col - 0.5, row - 0.5) of a cell's rectangle
RectXY(col, row) == <<2 * col - 1, 2 * row - 1>>

\* line 35: the cell update_stats reads for a rectangle
RectRow(rect) == Trunc2(rect[2] + 1)
RectCol(rect) == Trunc2(rect[1] + 1)

(***************************************************************************)
(* InteractiveArray.update_stats                                           *)
(***************************************************************************)
\* lines 36-39: self.arr[col] or self.arr[row, col] raises no IndexError
ReadOk(a, rect) ==
    IF Rank(a) = 1
    THEN IndexOk(RectCol(rect), a.shape[1])
    ELSE IndexOk(RectRow(rect), a.shape[1]) /\ IndexOk(RectCol(rect), a.shape[2])

\* lines 36-39: the element read
ReadVal(a, rect) ==
    IF Rank(a) = 1
    THEN a.flat[NormIndex(RectCol(rect), a.shape[1]) + 1]
    ELSE a.flat[NormIndex(RectRow(rect), a.shape[1]) * a.shape[2]
                + NormIndex(RectCol(rect), a.shape[2]) + 1]

\* lines 33-39
HighlightedElements(a, rects) == [i \in 1..Len(rects) |-> ReadVal(a, rects[i])]

MinOf(s) == CHOOSE v \in {s[i] : i \in 1..Len(s)} : \A j \in 1..Len(s) : v <= s[j]
MaxOf(s) == CHOOSE v \in {s[i] : i \in 1..Len(s)} : \A j \in 1..Len(s) : v >= s[j]

\* twice np.median(s)
Median2(s) ==
    LET t == SortSeq(s, LAMBDA x, y : x < y)
        n == Len(s)
    IN  IF n % 2 = 1 THEN 2 * t[(n + 1) \div 2] ELSE t[n \div 2] + t[n \div 2 + 1]

\* num / den rounded to the nearest integer (den > 0)
RoundDiv(num, den) == (2 * num + den) \div (2 * den)

\* the greatest r in lo..hi with r * r <= x
RECURSIVE ISqrtIn(_, _, _)
ISqrtIn(x, lo, hi) ==
    IF lo >= hi THEN lo
    ELSE LET mid == (lo + hi + 1) \div 2
         IN  IF mid * mid <= x THEN ISqrtIn(x, mid, hi) ELSE ISqrtIn(x, lo, mid - 1)

\* f"{np.mean(s):.2f}", in hundredths
Mean100(s) == RoundDiv(100 * SumSeq(s), Len(s))

\* f"{np.std(s):.2f}", in hundredths: the population standard deviation
\* sqrt(n * sum(v^2) - sum(v)^2) / n
Std100(s) ==
    LET n == Len(s)
        d == n * SumSeq([i \in 1..n |-> s[i] * s[i]]) - SumSeq(s) * SumSeq(s)
    IN  (ISqrtIn(40000 * d, 0, 200 * n * (MaxOf(s) - MinOf(s))) + n) \div (2 * n)

\* lines 46-53: the caption <<min, max, 2 * median, mean, std, sum>>
StatsTitle(s) == <<MinOf(s), MaxOf(s), Median2(s), Mean100(s), Std100(s), SumSeq(s)>>

\* update_stats: the exception raised and the caption left on the figure
UpdateStats(a, rects, cur) ==
    IF \E i \in 1..Len(rects) : ~ReadOk(a, rects[i])
    THEN [exc |-> "IndexError", title |-> cur]
    ELSE IF rects = <<>>
         THEN [exc |-> "None", title |-> <<>>]
         ELSE [exc |-> "None", title |-> StatsTitle(HighlightedElements(a, rects))]

(***************************************************************************)
(* InteractiveArray.onclick                                                *)
(***************************************************************************)
\* a slip of line 63: only the x coordinate of the corner is compared
MatchesColOnly(rect, col, row) == rect[1] = RectXY(col, row)[1]

\* line 63
Matches(rect, col, row) == rect = RectXY(col, row)

\* line 65: list.remove of the rectangle at position i
ListRemove(s, i) == SubSeq(s, 1, i - 1) \o SubSeq(s, i + 1, Len(s))

\* lines 62-71: the list after the click
Toggle(rects, col, row) ==
    IF \E i \in 1..Len(rects) : Matches(rects[i], col, row)
    THEN ListRemove(rects, CHOOSE i \in 1..Len(rects) :
                               /\ Matches(rects[i], col, row)
                               /\ \A j \in 1..(i - 1) : ~Matches(rects[j], col, row))
    ELSE Append(rects, RectXY(col, row))

\* the pointer positions inside the axes matshow sets up:
\* x in [-0.5, cols - 0.5], y in [-0.5, rows - 0.5]
PointerX(a) == (-1)..(2 * GridCols(a) - 1)
PointerY(a) == (-1)..(2 * GridRows(a) - 1)

OnClick(x2, y2) ==
    LET col   == ClickCol(x2)
        row   == ClickRow(y2)
        rects == Toggle(highlight_rects, col, row)
        us    == UpdateStats(arr, rects, title)
    IN  /\ ax # None
        /\ Len(rects) <= MaxRects
        /\ highlight_rects' = rects
        /\ title' = us.title
        /\ ret' = [kind |-> us.exc, obj |-> <<>>]
        /\ last' = [op |-> "onclick", row |-> row, col |-> col, axis |-> None]
        /\ before' = highlight_rects
        /\ twice' = (last.op = "onclick" /\ last.row = row /\ last.col = col)
        /\ UNCHANGED <<arr, stats, xticks, yticks, ax, printed>>

(***************************************************************************)
(* InteractiveArray.display                                                *)
(***************************************************************************)
\* lines 80-100: the axes display() sets up
Axes(a, xt, yt) ==
    IF Rank(a) = 1
    THEN [image       |-> <<1, a.shape[1]>>,
          xticks      |-> NpArange(a.shape[1]),
          xticklabels |-> xt,
          yticks      |-> <<>>,
          yticklabels |-> <<>>,
          texts       |-> {<<i - 1, 0, a.flat[i]>> : i \in 1..a.shape[1]}]
    ELSE [image       |-> <<a.shape[1], a.shape[2]>>,
          xticks      |-> NpArange(a.shape[1]),
          xticklabels |-> xt,
          yticks      |-> NpArange(a.shape[2]),
          yticklabels |-> yt[1],
          texts       |-> {<<j, i, a.flat[i * a.shape[2] + j + 1]>> :
                              i \in 0..(a.shape[1] - 1), j \in 0..(a.shape[2] - 1)}]

Display ==
    /\ IF Rank(arr) \in {1, 2}
       THEN LET us == IF stats THEN UpdateStats(arr, highlight_rects, <<>>)
                      ELSE [exc |-> "None", title |-> <<>>]
            IN  /\ ax' = Some(Axes(arr, xticks, yticks))
                /\ title' = us.title
                /\ ret' = [kind |-> us.exc, obj |-> <<>>]
                /\ UNCHANGED printed
       ELSE /\ printed' = Some("Array dimensions not supported.")
            /\ ret' = [kind |-> "None", obj |-> <<>>]
            /\ UNCHANGED <<ax, title>>
    /\ last' = [op |-> "display", row |-> 0, col |-> 0, axis |-> None]
    /\ before' = highlight_rects
    /\ twice' = FALSE
    /\ UNCHANGED <<arr, stats, xticks, yticks, highlight_rects>>

(***************************************************************************)
(* InteractiveArray.sum                                                    *)
(***************************************************************************)
Axes_ == {None, Some(0), Some(1), Some(-1)}

Sum(axis) ==
    /\ ret' = IF AxisOk(arr, axis)
              THEN Construct(NpSum(arr, axis), FALSE, None, None)
              ELSE [kind |-> "AxisError", obj |-> <<>>]
    /\ last' = [op |-> "sum", row |-> 0, col |-> 0, axis |-> axis]
    /\ before' = highlight_rects
    /\ twice' = FALSE
    /\ UNCHANGED <<arr, stats, xticks, yticks, highlight_rects, ax, title, printed>>

(***************************************************************************)
(* Specification of the array wrapper                                      *)
(***************************************************************************)
FibIdle ==
    /\ fib_n = 0
    /\ stack = <<>>
    /\ counter = <<>>
    /\ gnodes = <<>>
    /\ gedges = <<>>
    /\ fibDone = FALSE

\* InteractiveArray(a, stats=st, xticks=..., yticks=...)
Init ==
    /\ \E a \in Arrays, st \in BOOLEAN, custom \in BOOLEAN :
          LET xt == IF custom THEN Some(Labels(GridCols(a))) ELSE None
              yt == IF custom THEN Some(Labels(GridRows(a))) ELSE None
              o  == Construct(a, st, xt, yt).obj[1]
          IN  /\ arr = o.arr
              /\ stats = o.stats
              /\ xticks = o.xticks
              /\ yticks = o.yticks
              /\ highlight_rects = o.highlight_rects
              /\ ax = o.ax
    /\ title = <<>>
    /\ printed = None
    /\ ret = [kind |-> "None", obj |-> <<>>]
    /\ last = [op |-> "init", row |-> 0, col |-> 0, axis |-> None]
    /\ before = <<>>
    /\ twice = FALSE
    /\ FibIdle

Click == \E x2 \in PointerX(arr), y2 \in PointerY(arr) : OnClick(x2, y2)
Render == Display
Reduce == \E axis \in Axes_ : Sum(axis)

Next ==
    \/ Click /\ UNCHANGED fibVars
    \/ Render /\ UNCHANGED fibVars
    \/ Reduce /\ UNCHANGED fibVars

Spec == Init /\ [][Next]_vars

(***************************************************************************)
(* draw_fib_tree                                                           *)
(***************************************************************************)
\* line 203: counter.get(n, 0)
CounterGet(c, n) == IF n \in DOMAIN c THEN c[n] ELSE 0

\* a slip of line 204: the count is stored without being incremented
CounterPutSame(c, n, count) ==
    [k \in (DOMAIN c) \cup {n} |-> IF k = n THEN count ELSE c[k]]

\* line 204: counter[n] = count + 1
CounterPut(c, n, count) ==
    [k \in (DOMAIN c) \cup {n} |-> IF k = n THEN count + 1 ELSE c[k]]

\* line 205: the identifier f"fib({n})_{count}"
NodeId(n, count) == <<n, count>>

\* slips of line 215: n <= 0, and n == 0 or n == 1
BaseCaseZero(n) == n <= 0
BaseCaseNonNeg(n) == n \in {0, 1}

\* line 215
BaseCase(n) == n <= 1

Frame(n, parent) == [n |-> n, parent |-> parent, node |-> None, pc |-> "enter"]

Top == stack[Len(stack)]
SetTop(f) == [stack EXCEPT ![Len(stack)] = f]

\* lines 197-215: name the call, add its node and the edge from its parent
Enter ==
    /\ stack # <<>>
    /\ Top.pc = "enter"
    /\ LET count == CounterGet(counter, Top.n)
           node  == NodeId(Top.n, count)
       IN  /\ counter' = CounterPut(counter, Top.n, count)
           /\ gnodes' = Append(gnodes, node)
           /\ gedges' = IF Top.parent # None
                        THEN Append(gedges, <<Top.parent[1], node>>)
                        ELSE gedges
           /\ stack' = SetTop([Top EXCEPT !.node = Some(node),
                                          !.pc = IF BaseCase(Top.n) THEN "ret" ELSE "rec1"])
    /\ UNCHANGED <<fib_n, fibDone>>

\* line 219
Rec1 ==
    /\ stack # <<>>
    /\ Top.pc = "rec1"
    /\ stack' = Append(SetTop([Top EXCEPT !.pc = "rec2"]), Frame(Top.n - 1, Top.node))
    /\ UNCHANGED <<fib_n, counter, gnodes, gedges, fibDone>>

\* line 220
Rec2 ==
    /\ stack # <<>>
    /\ Top.pc = "rec2"
    /\ stack' = Append(SetTop([Top EXCEPT !.pc = "ret"]), Frame(Top.n - 2, Top.node))
    /\ UNCHANGED <<fib_n, counter, gnodes, gedges, fibDone>>

\* lines 216, 222: return graph
Return ==
    /\ stack # <<>>
    /\ Top.pc = "ret"
    /\ stack' = SubSeq(stack, 1, Len(stack) - 1)
    /\ UNCHANGED <<fib_n, counter, gnodes, gedges, fibDone>>

\* line 228: display(G)
ShowTree ==
    /\ stack = <<>>
    /\ ~fibDone
    /\ fibDone' = TRUE
    /\ UNCHANGED <<fib_n, stack, counter, gnodes, gedges>>

ArrayIdle ==
    LET o == Construct(Arr1D, FALSE, None, None).obj[1]
    IN  /\ arr = o.arr
        /\ stats = o.stats
        /\ xticks = o.xticks
        /\ yticks = o.yticks
        /\ highlight_rects = o.highlight_rects
        /\ ax = o.ax
        /\ title = <<>>
        /\ printed = None
        /\ ret = [kind |-> "None", obj |-> <<>>]
        /\ last = [op |-> "init", row |-> 0, col |-> 0, axis |-> None]
        /\ before = <<>>
        /\ twice = FALSE

\* draw_fib_tree(n): line 225 calls draw_fib_tree_internal(n)
InitFib ==
    /\ \E n \in (-MaxNeg)..MaxN :
          /\ fib_n = n
          /\ stack = <<Frame(n, None)>>
    /\ counter = <<>>
    /\ gnodes = <<>>
    /\ gedges = <<>>
    /\ fibDone = FALSE
    /\ ArrayIdle

NextFib ==
    \/ Enter /\ UNCHANGED arrayVars
    \/ Rec1 /\ UNCHANGED arrayVars
    \/ Rec2 /\ UNCHANGED arrayVars
    \/ Return /\ UNCHANGED arrayVars
    \/ ShowTree /\ UNCHANGED arrayVars

SpecFib == InitFib /\ [][NextFib]_vars

(***************************************************************************)
(* Properties                                                              *)
(***************************************************************************)
SeqSet(s) == {s[i] : i \in 1..Len(s)}

\* the cell <<row, col>> whose rectangle has corner rect
CoordOf(rect) == <<(rect[2] + 1) \div 2, (rect[1] + 1) \div 2>>
HighlightSetOf(rects) == {CoordOf(r) : r \in SeqSet(rects)}
HighlightSet == HighlightSetOf(highlight_rects)

\* <<row, col>> is a cell of the rendered array (row 0 for a rank-1 array)
InBounds(a, row, col) ==
    /\ 0 <= row /\ row < GridRows(a)
    /\ 0 <= col /\ col < GridCols(a)

CellValue(a, row, col) == a.flat[row * GridCols(a) + col + 1]

SymDiff(S, T) == (S \ T) \cup (T \ S)

\* C1: a click that maps to a cell c of the array adds c to the highlight
\* set if it is absent and removes it if it is present, changing no other
\* coordinate's membership; a second consecutive click on c gives back the
\* highlight set as it was before the first.
C1_ToggleInvolution ==
    [][(last'.op = "onclick" /\ InBounds(arr, last'.row, last'.col)) =>
          /\ HighlightSetOf(highlight_rects')
                = SymDiff(HighlightSet, {<<last'.row, last'.col>>})
          /\ Cardinality(HighlightSetOf(highlight_rects')) = Len(highlight_rects')
          /\ (last.op = "onclick" /\ last.row = last'.row /\ last.col = last'.col)
                => HighlightSetOf(highlight_rects') = HighlightSetOf(before)]_vars

C1_Witness ==
    /\ last.op = "onclick"
    /\ twice
    /\ InBounds(arr, last.row, last.col)
    /\ highlight_rects # <<>>
    /\ <<last.row, last.col>> \notin HighlightSet

\* C2: with every click inside the rendered grid (the pointer positions
\* PointerX, PointerY), every coordinate in the highlight set is a valid
\* index into the array.
C2_HighlightsValid ==
    \A c \in HighlightSet : InBounds(arr, c[1], c[2])

\* C3: immediately after display() returns the highlight set is empty, and
\* the caption it shows covers no cell highlighted before it.
C3_DisplayClears ==
    (last.op = "display" /\ ret.kind = "None") =>
        (highlight_rects = <<>> /\ title = <<>>)

\* C4: a click that maps outside the array fails with an IndexError and
\* leaves the highlight set as it was.
C4_OutOfRangeFails ==
    (last.op = "onclick" /\ ~InBounds(arr, last.row, last.col)) =>
        (ret.kind = "IndexError" /\ highlight_rects = before)

\* C8: sum(axis) of a rank-1 or rank-2 array returns a new wrapped instance
\* for every valid axis, axis=None included.
C8_SumReturnsInstance ==
    (last.op = "sum" /\ Rank(arr) \in {1, 2} /\ AxisOk(arr, last.axis)) =>
        /\ ret.kind = "InteractiveArray"
        /\ ret.obj[1].arr = NpSum(arr, last.axis)

\* C9: on the rendered axes of a rank-1 or rank-2 array the horizontal axis
\* carries as many labels as the array has columns and the vertical axis as
\* many as it has rows.
C9_LabelLengths ==
    ax # None =>
        /\ Len(ax[1].xticklabels) = GridCols(arr)
        /\ Rank(arr) = 2 => Len(ax[1].yticklabels) = GridRows(arr)

\* C10: after an onclick handler completes the caption is empty exactly when
\* the highlight set is empty, and otherwise shows the statistics of the
\* values at the highlighted cells, each cell counted once.
C10_CaptionConsistent ==
    (last.op = "onclick" /\ ret.kind = "None") =>
        /\ (title = <<>>) <=> (highlight_rects = <<>>)
        /\ highlight_rects # <<>> =>
              /\ Cardinality(HighlightSet) = Len(highlight_rects)
              /\ \A c \in HighlightSet : InBounds(arr, c[1], c[2])
              /\ title = StatsTitle([i \in 1..Len(highlight_rects) |->
                            CellValue(arr, CoordOf(highlight_rects[i])[1],
                                           CoordOf(highlight_rects[i])[2])])

\* fib(0) = 0, fib(1) = 1
RECURSIVE Fib(_)
Fib(k) == IF k <= 1 THEN k ELSE Fib(k - 1) + Fib(k - 2)

\* positions of the edges leaving / entering node v
OutEdges(v) == {i \in 1..Len(gedges) : gedges[i][1] = v}
InEdges(v) == {i \in 1..Len(gedges) : gedges[i][2] = v}
PosOf(v) == CHOOSE i \in 1..Len(gnodes) : gnodes[i] = v

\* C5: for n >= 0 the finished graph has 2 * fib(n + 1) - 1 distinct nodes,
\* one per call: no identifier is given to two calls.
C5_NodeCount ==
    (fibDone /\ fib_n >= 0) =>
        /\ Cardinality(SeqSet(gnodes)) = 2 * Fib(fib_n + 1) - 1
        /\ Len(gnodes) = Cardinality(SeqSet(gnodes))

C5_Witness ==
    fibDone /\ fib_n = 5 /\ Cardinality(SeqSet(gnodes)) = 15

\* C6: for n >= 0, in the finished graph every node with outgoing edges has
\* exactly two, first to a node for n - 1 and then to a node for n - 2, the
\* n - 1 child created first; every node but the root has exactly one incoming
\* edge; every leaf's value is 0 or 1.
C6_TreeShape ==
    (fibDone /\ fib_n >= 0) =>
        /\ gnodes[1][1] = fib_n
        /\ InEdges(gnodes[1]) = {}
        /\ \A k \in 2..Len(gnodes) : Cardinality(InEdges(gnodes[k])) = 1
        /\ \A e \in SeqSet(gedges) : e[1] \in SeqSet(gnodes) /\ e[2] \in SeqSet(gnodes)
        /\ \A v \in SeqSet(gnodes) :
              IF OutEdges(v) = {}
              THEN v[1] \in {0, 1}
              ELSE \E i, j \in OutEdges(v) :
                      /\ OutEdges(v) = {i, j}
                      /\ i < j
                      /\ gedges[i][2][1] = v[1] - 1
                      /\ gedges[j][2][1] = v[1] - 2
                      /\ PosOf(gedges[i][2]) < PosOf(gedges[j][2])

C6_Witness ==
    /\ fibDone
    /\ fib_n = 4
    /\ \E v \in SeqSet(gnodes) : Cardinality(OutEdges(v)) = 2
    /\ \E v \in SeqSet(gnodes) : OutEdges(v) = {} /\ v[1] = 0

\* C7 as stated: a call with n < 0 never returns a finished graph.
C7_NegativeNeverReturns ==
    fib_n < 0 => ~fibDone

\* C7 as amended: for n < 0 the first call meets the base case n <= 1, makes
\* no recursive call, and returns a graph of the single node fib(n), no edges.
C7_NegativeIsLeaf ==
    fib_n < 0 =>
        /\ Len(stack) <= 1
        /\ \A i \in 1..Len(stack) : stack[i].pc \in {"enter", "ret"}
        /\ Len(gnodes) <= 1
        /\ gedges = <<>>
        /\ fibDone => gnodes = <<<<fib_n, 0>>>>

C7_Witness ==
    fibDone /\ fib_n < 0 /\ Len(gnodes) = 1

====
